---- MODULE Spec2Model ----
(***************************************************************************)
(* k8s-node-monitor: one pass of main() over the cluster's node list.      *)
(*                                                                         *)
(* Remote parties (the Proxmox API, the Discord webhook, the wall clock)   *)
(* answer nondeterministically, so every function that talks to one of     *)
(* them is an operator that returns the SET of its possible results.  A    *)
(* result carries the client after the call (c), the externally visible    *)
(* events the call produced in order (out) and the returned error (err,    *)
(* "" for nil).  Events are requests on the wire, lines on stdout, and     *)
(* the entries into notifyDiscord and vmAction.                            *)
(***************************************************************************)
EXTENDS Integers, Sequences, FiniteSets, TLC

VARIABLES pc, cfg, enableRestart, proxmoxClient, discordClient, nodes, idx,
          last, hadFailure

vars == <<pc, cfg, enableRestart, proxmoxClient, discordClient, nodes, idx,
          last, hadFailure>>

----------------------------------------------------------------------------
(* Bounds *)

MaxNodes == 2          \* longest node list returned by GetNodes
MaxDrift == 2          \* seconds between the listing and a time.Since reading

(* Program constants *)

GraceMinutes == 1      \* main.go:71  time.Since(...).Minutes() <= 1
SecondsPerMinute == 60 \* time.Duration.Minutes()

----------------------------------------------------------------------------
(* Input domains *)

NodeNames == {"w1", "w2"}

\* seconds since the Ready condition last changed, measured when the nodes
\* were listed; with the drift time.Since reads 59, 60 (the boundary) or 61
ListedElapsed == {59}

Mapping(k, p, v) == [KubernetesNodeName |-> k, ProxmoxNode |-> p, VMID |-> v]

\* the nodes: section of the configuration file: in the first w1 is mapped
\* (twice, the name is duplicated) and w2 is not; the second is empty
ConfigNodes ==
    { << Mapping("w1", "pve1", 100), Mapping("w3", "pve2", 200),
         Mapping("w1", "pve2", 101) >>,
      << >> }

DiscordConfigs ==
    { [WebhookURL |-> "https://discord/hook", Enabled |-> TRUE],
      [WebhookURL |-> "",                     Enabled |-> TRUE],
      [WebhookURL |-> "https://discord/hook", Enabled |-> FALSE] }

ProxmoxConfigs ==
    { [ApiUrl |-> "https://pve/api2/json", Username |-> "root@pam",
       Password |-> "pw", TokenID |-> t[1], TokenSecret |-> t[2]] :
         t \in { <<"", "">>, <<"id", "">>, <<"id", "secret">> } }

\* what POST /access/ticket answers with status 200: a ticket carries its
\* issue time, so the server never hands out the one the client already holds
LoginReplies(held) ==
    IF held = "T1" THEN { [ticket |-> "T2", CSRFPreventionToken |-> "X2"] }
    ELSE { [ticket |-> "T1", CSRFPreventionToken |-> "X1"] }

\* what GET .../status/current can answer: "fail" is any of transport error,
\* non-200 status or undecodable body; the others are data.status
StatusReplies == {"fail", "stopped", "running", "paused"}

ActionReplies == {"ok", "fail"}     \* POST .../status/<action>: 200 or not
WebhookReplies == {"ok", "fail"}    \* POST to the webhook: 2xx or not

----------------------------------------------------------------------------
(* Events *)

Ev(kind, target, arg, auth, resp) ==
    [kind |-> kind, target |-> target, arg |-> arg, auth |-> auth, resp |-> resp]

Printf(msg) == Ev("print", <<>>, msg, <<>>, "")

BoolStr(b) == IF b THEN "true" ELSE "false"

Res(c, out, err) == [c |-> c, out |-> out, err |-> err]

----------------------------------------------------------------------------
(* pkg/config *)

\* mutant: the last entry with the name wins
RECURSIVE FindFrom_LastMatch(_, _, _)
FindFrom_LastMatch(ns, nodeName, i) ==
    IF i > Len(ns) THEN <<>>
    ELSE IF FindFrom_LastMatch(ns, nodeName, i + 1) # <<>>
    THEN FindFrom_LastMatch(ns, nodeName, i + 1)
    ELSE IF ns[i].KubernetesNodeName = nodeName THEN << ns[i] >>
    ELSE <<>>

RECURSIVE FindFrom(_, _, _)
FindFrom(ns, nodeName, i) ==
    IF i > Len(ns) THEN <<>>
    ELSE IF ns[i].KubernetesNodeName = nodeName THEN << ns[i] >>
    ELSE FindFrom(ns, nodeName, i + 1)

\* *NodeMapping: <<>> is nil, <<m>> points to a copy of the entry
FindNodeMapping(config, nodeName) == FindFrom(config.Nodes, nodeName, 1)

----------------------------------------------------------------------------
(* pkg/proxmox *)

NewClient(config) ==
    [apiURL |-> config.ApiUrl, username |-> config.Username,
     password |-> config.Password, tokenID |-> config.TokenID,
     tokenSecret |-> config.TokenSecret, ticket |-> "", csrfToken |-> ""]

\* the authentication headers of a request
addAuthHeaders(c) ==
    IF c.tokenID # "" /\ c.tokenSecret # ""
    THEN << "Authorization", c.tokenID, c.tokenSecret >>
    ELSE << "Cookie", c.ticket, c.csrfToken >>

\* mutant: a ticket the client already holds is reused
Login_ReuseSession(c) ==
    IF (c.tokenID # "" /\ c.tokenSecret # "") \/ c.ticket # ""
    THEN { Res(c, <<>>, "") }
    ELSE { Res(c, << Ev("login", <<>>, c.username, <<>>, "fail") >>, "login") }
         \cup
         { Res([c EXCEPT !.ticket = r.ticket, !.csrfToken = r.CSRFPreventionToken],
               << Ev("login", <<>>, c.username, <<>>, r.ticket) >>, "") :
             r \in LoginReplies(c.ticket) }

\* mutant: a session is established even when a token pair is configured
Login_AlwaysSession(c) ==
    { Res(c, << Ev("login", <<>>, c.username, <<>>, "fail") >>, "login") }
    \cup
    { Res([c EXCEPT !.ticket = r.ticket, !.csrfToken = r.CSRFPreventionToken],
          << Ev("login", <<>>, c.username, <<>>, r.ticket) >>, "") :
        r \in LoginReplies(c.ticket) }

Login(c) ==
    IF c.tokenID # "" /\ c.tokenSecret # ""
    THEN { Res(c, <<>>, "") }
    ELSE { Res(c, << Ev("login", <<>>, c.username, <<>>, "fail") >>, "login") }
         \cup
         { Res([c EXCEPT !.ticket = r.ticket, !.csrfToken = r.CSRFPreventionToken],
               << Ev("login", <<>>, c.username, <<>>, r.ticket) >>, "") :
             r \in LoginReplies(c.ticket) }

\* results carry the returned status string as well
GetVMStatus(c, node, vmID) ==
    UNION { IF l.err # ""
            THEN { [c |-> l.c, out |-> l.out, status |-> "", err |-> "login"] }
            ELSE { [c |-> l.c,
                    out |-> l.out \o << Ev("status", <<node, vmID>>, "GET",
                                           addAuthHeaders(l.c), r) >>,
                    status |-> IF r = "fail" THEN "" ELSE r,
                    err |-> IF r = "fail" THEN "status" ELSE ""] :
                     r \in StatusReplies } :
            l \in Login(c) }

\* mutant: an action the hypervisor refused is posted a second time
vmAction_RetryOnce(c, node, vmID, action) ==
    UNION { IF l.err # ""
            THEN { Res(l.c, << Ev("vmAction", <<node, vmID>>, action, <<>>, "") >>
                            \o l.out, "login") }
            ELSE UNION {
                   IF r = "ok"
                   THEN { Res(l.c,
                              << Ev("vmAction", <<node, vmID>>, action, <<>>, "") >>
                              \o l.out
                              \o << Ev("action", <<node, vmID>>, action,
                                       addAuthHeaders(l.c), r) >>, "") }
                   ELSE { Res(l.c,
                              << Ev("vmAction", <<node, vmID>>, action, <<>>, "") >>
                              \o l.out
                              \o << Ev("action", <<node, vmID>>, action,
                                       addAuthHeaders(l.c), r),
                                    Ev("action", <<node, vmID>>, action,
                                       addAuthHeaders(l.c), r2) >>,
                              IF r2 = "ok" THEN "" ELSE "action") :
                            r2 \in ActionReplies } :
                   r \in ActionReplies } :
            l \in Login(c) }

vmAction(c, node, vmID, action) ==
    UNION { IF l.err # ""
            THEN { Res(l.c, << Ev("vmAction", <<node, vmID>>, action, <<>>, "") >>
                            \o l.out, "login") }
            ELSE { Res(l.c,
                       << Ev("vmAction", <<node, vmID>>, action, <<>>, "") >>
                       \o l.out
                       \o << Ev("action", <<node, vmID>>, action,
                                addAuthHeaders(l.c), r) >>,
                       IF r = "ok" THEN "" ELSE "action") :
                     r \in ActionReplies } :
            l \in Login(c) }

startVM(c, node, vmID) == vmAction(c, node, vmID, "start")

\* mutant: a reboot done as a stop followed by a start
resetVM_StopStart(c, node, vmID) ==
    UNION { IF a.err # "" THEN { a }
            ELSE { Res(b.c, a.out \o b.out, b.err) : b \in vmAction(a.c, node, vmID, "start") } :
            a \in vmAction(c, node, vmID, "stop") }

resetVM(c, node, vmID) == vmAction(c, node, vmID, "reset")

\* mutant: every state that is not stopped is treated as running
RestartVM_DefaultReset(c, node, vmID) ==
    UNION { IF g.err # "" THEN { Res(g.c, g.out, "status") }
            ELSE IF g.status = "stopped"
            THEN { Res(a.c, g.out \o a.out, a.err) : a \in startVM(g.c, node, vmID) }
            ELSE { Res(a.c, g.out \o a.out, a.err) : a \in resetVM(g.c, node, vmID) } :
            g \in GetVMStatus(c, node, vmID) }

RestartVM(c, node, vmID) ==
    UNION { IF g.err # "" THEN { Res(g.c, g.out, "status") }
            ELSE IF g.status = "stopped"
            THEN { Res(a.c, g.out \o a.out, a.err) : a \in startVM(g.c, node, vmID) }
            ELSE IF g.status = "running"
            THEN { Res(a.c, g.out \o a.out, a.err) : a \in resetVM(g.c, node, vmID) }
            ELSE { Res(g.c, g.out, "unsupported") } :
            g \in GetVMStatus(c, node, vmID) }

----------------------------------------------------------------------------
(* pkg/discord *)

NewWebhookClient(webhookURL, enabled) ==
    [WebhookURL |-> webhookURL, Enabled |-> enabled]

\* mutant: the request is skipped only when the client is disabled and has
\* no URL
SendNodeNotReadyNotification_RequiresBoth(dc, nodeName, status, vmInfo, isRestarting) ==
    IF ~dc.Enabled /\ dc.WebhookURL = ""
    THEN { << <<>>, "" >> }
    ELSE { << << Ev("post", vmInfo, BoolStr(isRestarting), << nodeName, status >>, r) >>,
              IF r = "ok" THEN "" ELSE "webhook" >> : r \in WebhookReplies }

\* results are <<events, error>>
SendNodeNotReadyNotification(dc, nodeName, status, vmInfo, isRestarting) ==
    IF ~dc.Enabled \/ dc.WebhookURL = ""
    THEN { << <<>>, "" >> }
    ELSE { << << Ev("post", vmInfo, BoolStr(isRestarting), << nodeName, status >>, r) >>,
              IF r = "ok" THEN "" ELSE "webhook" >> : r \in WebhookReplies }

----------------------------------------------------------------------------
(* pkg/k8s *)

\* LastTransition of a Ready node: time.Time{}, long before the listing
\* (instants are seconds, the listing's time.Now() is 0)
ZeroTime == -2000000000

NodeInfo(name, status, lastTransition) ==
    [Name |-> name, Status |-> status, LastTransition |-> lastTransition]

\* what getNodeStatus can give a node: Ready with the zero time, or NotReady
\* with the time of the Ready condition's last transition
NodeInfos ==
    { NodeInfo(n, "Ready", ZeroTime) : n \in NodeNames }
    \cup { NodeInfo(n, "NotReady", 0 - e) : n \in NodeNames, e \in ListedElapsed }

NodeLists == UNION { [1..k -> NodeInfos] : k \in 0..MaxNodes }

----------------------------------------------------------------------------
(* main.go *)

\* time.Since(t) read when the clock shows now, in seconds
Since(now, t) == now - t

\* mutant: the boundary belongs to the remediation side
WithinGrace_Strict(d) == d < GraceMinutes * SecondsPerMinute

\* Duration.Minutes() <= 1 on a duration of d seconds
WithinGrace(d) == d <= GraceMinutes * SecondsPerMinute

\* results are the event sequences of the call
notifyDiscord(node, config, dc, isRestarting) ==
    LET entry == << Ev("notify", <<>>, BoolStr(isRestarting), << node.Name >>, "") >>
        nodeMapping == FindNodeMapping(config, node.Name)
        vmInfo == IF nodeMapping # <<>>
                  THEN << nodeMapping[1].ProxmoxNode, nodeMapping[1].VMID >>
                  ELSE <<>>
    IN  IF ~dc.Enabled
        THEN { entry }
        ELSE { entry \o s[1]
                 \o << Printf(IF s[2] # "" THEN "Discord error" ELSE "Discord sent") >> :
               s \in SendNodeNotReadyNotification(dc, node.Name, node.Status,
                                                  vmInfo, isRestarting) }

\* results: the client after the call, the events, and whether the process
\* exited inside the call (no path of main.go's functions does)
Ret(c, out) == [c |-> c, out |-> out, exit |-> FALSE]

RestartResult(err, status) ==
    Printf(IF err # "" THEN "Restart Error: " \o err
           ELSE IF status = "stopped"
           THEN "Restart: VM was stopped, started successfully"
           ELSE "Restart: Requested successfully")

\* mutant: the restart is given up when the announcement could not be delivered
announceAndRestart_NeedsDelivery(node, config, g, dc, host, vmid) ==
    UNION { IF Len(n) > 0 /\ n[Len(n)].arg = "Discord error"
            THEN { Ret(g.c,
                       g.out
                       \o << Printf("Current VM Status: " \o g.status),
                             Printf("Action: Restarting node via Proxmox") >>
                       \o n) }
            ELSE { Ret(r.c,
                       g.out
                       \o << Printf("Current VM Status: " \o g.status),
                             Printf("Action: Restarting node via Proxmox") >>
                       \o n \o r.out \o << RestartResult(r.err, g.status) >>) :
                     r \in RestartVM(g.c, host, vmid) } :
            n \in notifyDiscord(node, config, dc, TRUE) }

\* mutant: a failed restart is followed up by a second notification
announceAndRestart_FollowUp(node, config, g, dc, host, vmid) ==
    UNION { UNION { { Ret(r.c,
                          g.out
                          \o << Printf("Current VM Status: " \o g.status),
                                Printf("Action: Restarting node via Proxmox") >>
                          \o n \o r.out \o << RestartResult(r.err, g.status) >>
                          \o (IF r.err # "" THEN f ELSE <<>>)) :
                        f \in notifyDiscord(node, config, dc, FALSE) } :
                    r \in RestartVM(g.c, host, vmid) } :
            n \in notifyDiscord(node, config, dc, TRUE) }

\* mutant: the restart is requested first and announced afterwards
announceAndRestart_ActFirst(node, config, g, dc, host, vmid) ==
    UNION { { Ret(r.c,
                  g.out
                  \o << Printf("Current VM Status: " \o g.status),
                        Printf("Action: Restarting node via Proxmox") >>
                  \o r.out \o n \o << RestartResult(r.err, g.status) >>) :
                r \in RestartVM(g.c, host, vmid) } :
            n \in notifyDiscord(node, config, dc, TRUE) }

\* mutant: the action is chosen from the status the engine queried, without
\* a query of its own
announceAndRestart_CachedStatus(node, config, g, dc, host, vmid) ==
    UNION { { Ret(r.c,
                  g.out
                  \o << Printf("Current VM Status: " \o g.status),
                        Printf("Action: Restarting node via Proxmox") >>
                  \o n \o r.out \o << RestartResult(r.err, g.status) >>) :
                r \in (IF g.status = "stopped" THEN startVM(g.c, host, vmid)
                       ELSE IF g.status = "running" THEN resetVM(g.c, host, vmid)
                       ELSE { Res(g.c, <<>>, "unsupported") }) } :
            n \in notifyDiscord(node, config, dc, TRUE) }

\* handleNodeRestart from line 136 on: g is the result of its status query
announceAndRestart(node, config, g, dc, host, vmid) ==
    UNION { { Ret(r.c,
                  g.out
                  \o << Printf("Current VM Status: " \o g.status),
                        Printf("Action: Restarting node via Proxmox") >>
                  \o n \o r.out \o << RestartResult(r.err, g.status) >>) :
                r \in RestartVM(g.c, host, vmid) } :
            n \in notifyDiscord(node, config, dc, TRUE) }

\* mutant: a node without mapping is skipped without a notification
handleNodeRestart_UnmappedSilent(node, config, c, dc) ==
    LET nodeMapping == FindNodeMapping(config, node.Name) IN
    IF nodeMapping = <<>>
    THEN { Ret(c, << Printf("Action: No mapping found") >>) }
    ELSE UNION {
           IF g.err # ""
           THEN { Ret(g.c, g.out \o << Printf("Status Error") >> \o n) :
                    n \in notifyDiscord(node, config, dc, FALSE) }
           ELSE announceAndRestart(node, config, g, dc,
                                   nodeMapping[1].ProxmoxNode, nodeMapping[1].VMID) :
           g \in GetVMStatus(c, nodeMapping[1].ProxmoxNode, nodeMapping[1].VMID) }

\* mutant: a failed status query ends the process (log.Fatalf)
handleNodeRestart_FatalOnError(node, config, c, dc) ==
    LET nodeMapping == FindNodeMapping(config, node.Name) IN
    IF nodeMapping = <<>>
    THEN { Ret(c, << Printf("Action: No mapping found") >> \o n) :
             n \in notifyDiscord(node, config, dc, FALSE) }
    ELSE UNION {
           IF g.err # ""
           THEN { [c |-> g.c, out |-> g.out \o << Printf("Status Error") >>,
                   exit |-> TRUE] }
           ELSE announceAndRestart(node, config, g, dc,
                                   nodeMapping[1].ProxmoxNode, nodeMapping[1].VMID) :
           g \in GetVMStatus(c, nodeMapping[1].ProxmoxNode, nodeMapping[1].VMID) }

\* mutant: the error of the status query is not checked
handleNodeRestart_IgnoreQueryError(node, config, c, dc) ==
    LET nodeMapping == FindNodeMapping(config, node.Name) IN
    IF nodeMapping = <<>>
    THEN { Ret(c, << Printf("Action: No mapping found") >> \o n) :
             n \in notifyDiscord(node, config, dc, FALSE) }
    ELSE UNION {
           announceAndRestart(node, config, g, dc,
                              nodeMapping[1].ProxmoxNode, nodeMapping[1].VMID) :
           g \in GetVMStatus(c, nodeMapping[1].ProxmoxNode, nodeMapping[1].VMID) }

handleNodeRestart(node, config, c, dc) ==
    LET nodeMapping == FindNodeMapping(config, node.Name) IN
    IF nodeMapping = <<>>
    THEN { Ret(c, << Printf("Action: No mapping found") >> \o n) :
             n \in notifyDiscord(node, config, dc, FALSE) }
    ELSE UNION {
           IF g.err # ""
           THEN { Ret(g.c, g.out \o << Printf("Status Error") >> \o n) :
                    n \in notifyDiscord(node, config, dc, FALSE) }
           ELSE announceAndRestart(node, config, g, dc,
                                   nodeMapping[1].ProxmoxNode, nodeMapping[1].VMID) :
           g \in GetVMStatus(c, nodeMapping[1].ProxmoxNode, nodeMapping[1].VMID) }

\* the lines displayNodeInfo prints around what it does for the node; since
\* is the duration time.Since returned, -1 when the clock was not read
Shown(node, r, since, action) ==
    [c |-> r.c,
     out |-> << Printf("Name: " \o node.Name), Printf("Status: " \o node.Status) >>
             \o action \o r.out
             \o << Printf("IP, Kubelet Version, OS/Arch, Allocatable Resources") >>,
     since |-> since, exit |-> r.exit]

\* mutant: the -restart flag is not consulted
displayNodeInfo_IgnoreFlag(node, config, c, dc, restart, now) ==
    IF node.Status = "Ready"
    THEN { Shown(node, Ret(c, <<>>), -1, <<>>) }
    ELSE IF WithinGrace(Since(now, node.LastTransition))
    THEN { Shown(node, Ret(c, n), Since(now, node.LastTransition),
                 << Printf("Action: NotReady for less than 1 minute") >>) :
             n \in notifyDiscord(node, config, dc, FALSE) }
    ELSE { Shown(node, r, Since(now, node.LastTransition), <<>>) :
             r \in handleNodeRestart(node, config, c, dc) }

\* mutant: Ready nodes are notified like the other skipped nodes
displayNodeInfo_NotifyReady(node, config, c, dc, restart, now) ==
    IF node.Status = "Ready"
    THEN { Shown(node, Ret(c, n), -1, <<>>) :
             n \in notifyDiscord(node, config, dc, FALSE) }
    ELSE IF ~restart
    THEN { Shown(node, Ret(c, n), -1,
                 << Printf("Action: Automatic restart disabled") >>) :
             n \in notifyDiscord(node, config, dc, FALSE) }
    ELSE IF WithinGrace(Since(now, node.LastTransition))
    THEN { Shown(node, Ret(c, n), Since(now, node.LastTransition),
                 << Printf("Action: NotReady for less than 1 minute") >>) :
             n \in notifyDiscord(node, config, dc, FALSE) }
    ELSE { Shown(node, r, Since(now, node.LastTransition), <<>>) :
             r \in handleNodeRestart(node, config, c, dc) }

\* now: what the clock shows if the function reads it
displayNodeInfo(node, config, c, dc, restart, now) ==
    IF node.Status = "Ready"
    THEN { Shown(node, Ret(c, <<>>), -1, <<>>) }
    ELSE IF ~restart
    THEN { Shown(node, Ret(c, n), -1,
                 << Printf("Action: Automatic restart disabled") >>) :
             n \in notifyDiscord(node, config, dc, FALSE) }
    ELSE IF WithinGrace(Since(now, node.LastTransition))
    THEN { Shown(node, Ret(c, n), Since(now, node.LastTransition),
                 << Printf("Action: NotReady for less than 1 minute") >>) :
             n \in notifyDiscord(node, config, dc, FALSE) }
    ELSE { Shown(node, r, Since(now, node.LastTransition), <<>>) :
             r \in handleNodeRestart(node, config, c, dc) }

----------------------------------------------------------------------------
(* The pass *)

Config(p, d, ns) == [Proxmox |-> p, Discord |-> d, Nodes |-> ns]

Configs == { Config(p, d, ns) :
               p \in ProxmoxConfigs, d \in DiscordConfigs, ns \in ConfigNodes }

\* no node processed yet
NoNode(c) == [node |-> NodeInfo("", "", ZeroTime), c0 |-> c, out |-> <<>>,
              since |-> -1]

\* a remote call failed, or the node could not be remediated
Failure(out) ==
    \E i \in 1..Len(out) :
        \/ out[i].resp = "fail"
        \/ out[i].kind = "print"
           /\ out[i].arg \in {"Action: No mapping found", "Status Error",
                              "Restart Error: unsupported", "Restart Error: status",
                              "Restart Error: login", "Restart Error: action",
                              "Discord error"}

TypeOK ==
    /\ pc \in {"listing", "loop", "done", "fatal", "exited"}
    /\ cfg \in Configs
    /\ enableRestart \in BOOLEAN
    /\ nodes \in NodeLists
    /\ idx \in 1..(Len(nodes) + 1)
    /\ hadFailure \in BOOLEAN

\* main.go:17-37: flags parsed, configuration loaded, clients constructed
Init ==
    /\ pc = "listing"
    /\ cfg \in Configs
    /\ enableRestart \in BOOLEAN
    /\ proxmoxClient = NewClient(cfg.Proxmox)
    /\ discordClient = NewWebhookClient(cfg.Discord.WebhookURL, cfg.Discord.Enabled)
    /\ nodes = <<>>
    /\ idx = 1
    /\ last = NoNode(proxmoxClient)
    /\ hadFailure = FALSE

\* main.go:40-47: the node list, or log.Fatalf
GetNodes ==
    /\ pc = "listing"
    /\ \/ pc' = "fatal" /\ nodes' = nodes
       \/ pc' = "loop" /\ nodes' \in NodeLists
    /\ UNCHANGED <<cfg, enableRestart, proxmoxClient, discordClient, idx, last,
                   hadFailure>>

\* main.go:49-51: one iteration of the loop
ProcessNode ==
    /\ pc = "loop"
    /\ idx <= Len(nodes)
    /\ \E now \in 0..MaxDrift :
         \E o \in displayNodeInfo(nodes[idx], cfg, proxmoxClient, discordClient,
                                  enableRestart, now) :
            /\ last' = [node |-> nodes[idx], c0 |-> proxmoxClient, out |-> o.out,
                        since |-> o.since]
            /\ proxmoxClient' = o.c
            /\ pc' = IF o.exit THEN "exited" ELSE "loop"
    /\ idx' = idx + 1
    /\ hadFailure' = (hadFailure \/ Failure(last.out))
    /\ UNCHANGED <<cfg, enableRestart, discordClient, nodes>>

\* main.go:52: the loop is over and main returns
Return ==
    /\ pc = "loop"
    /\ idx > Len(nodes)
    /\ pc' = "done"
    /\ UNCHANGED <<cfg, enableRestart, proxmoxClient, discordClient, nodes, idx,
                   last, hadFailure>>

Next == GetNodes \/ ProcessNode \/ Return

Spec == Init /\ [][Next]_vars

----------------------------------------------------------------------------
(* What the pass did for the node it processed last *)

Processed == idx > 1

OfKind(out, kinds) == SelectSeq(out, LAMBDA e : e.kind \in kinds)

Notifies == OfKind(last.out, {"notify"})     \* entries into notifyDiscord
Posts    == OfKind(last.out, {"post"})       \* requests to the webhook
Logins   == OfKind(last.out, {"login"})      \* POST /access/ticket
Queries  == OfKind(last.out, {"status"})     \* GET .../status/current
Calls    == OfKind(last.out, {"vmAction"})   \* entries into vmAction
Actions  == OfKind(last.out, {"action"})     \* POST .../status/<action>

\* everything sent to the hypervisor
Hypervisor(out) == OfKind(out, {"login", "status", "action"})

Printed(out, msg) ==
    \E i \in 1..Len(out) : out[i].kind = "print" /\ out[i].arg = msg

\* the branch the engine took, read off the line it printed for it
DecisionOf(out) ==
    IF Printed(out, "Status: Ready") THEN "Skip-Ready"
    ELSE IF Printed(out, "Action: Automatic restart disabled") THEN "Skip-Disabled"
    ELSE IF Printed(out, "Action: NotReady for less than 1 minute")
    THEN "Skip-Within-Grace"
    ELSE IF Printed(out, "Action: No mapping found") THEN "Skip-Unmapped"
    ELSE IF Printed(out, "Status Error") THEN "Skip-QueryError"
    ELSE IF Printed(out, "Action: Restarting node via Proxmox") THEN "Remediate"
    ELSE "none"

Decision == DecisionOf(last.out)

Mapped == FindNodeMapping(cfg, last.node.Name) # <<>>

Delivering == discordClient.Enabled /\ discordClient.WebhookURL # ""

GraceThreshold == GraceMinutes * SecondsPerMinute

\* the one notification of a node, with the given remediation-triggered flag:
\* notifyDiscord is entered once, and what it posts (one request when the
\* webhook is enabled and has a URL, none otherwise) carries the same flag
NotifiedOnce(flag) ==
    /\ Len(Notifies) = 1
    /\ Notifies[1].arg = flag
    /\ Notifies[1].auth = << last.node.Name >>
    /\ Len(Posts) = (IF Delivering THEN 1 ELSE 0)
    /\ \A i \in 1..Len(Posts) : Posts[i].arg = flag

----------------------------------------------------------------------------
(* Claims *)

\* C1: in one pass, for every node, notifyDiscord is entered exactly once when
\* the decision is Skip-Disabled, Skip-Within-Grace, Skip-Unmapped,
\* Skip-QueryError or Remediate and not at all when it is Skip-Ready, and at
\* most one request goes to the webhook, whatever the hypervisor and the
\* webhook answered.
C1_OneNotificationPerNode ==
    Processed =>
        /\ Decision \in {"Skip-Ready", "Skip-Disabled", "Skip-Within-Grace",
                         "Skip-Unmapped", "Skip-QueryError", "Remediate"}
        /\ Len(Notifies) = (IF Decision = "Skip-Ready" THEN 0 ELSE 1)
        /\ Len(Posts) <= Len(Notifies)

\* a remediation whose announcement could not be delivered and whose action
\* failed
C1_Witness ==
    /\ Processed /\ Decision = "Remediate"
    /\ \E i \in 1..Len(Posts) : Posts[i].resp = "fail"
    /\ \E i \in 1..Len(Actions) : Actions[i].resp = "fail"
    /\ Len(Notifies) = 1

\* C2: every start or reset request is preceded, in the same node's
\* processing, by the entry into notifyDiscord with triggered=true for that
\* node (and by its webhook request when the webhook delivers); when the
\* restart then fails, nothing more is notified.
C2_AnnounceThenAct ==
    Processed =>
        /\ \A j \in 1..Len(last.out) :
             last.out[j].kind \in {"vmAction", "action"} =>
                /\ \E i \in 1..(j - 1) :
                      /\ last.out[i].kind = "notify"
                      /\ last.out[i].arg = "true"
                      /\ last.out[i].auth = << last.node.Name >>
                /\ Delivering =>
                      \E i \in 1..(j - 1) :
                         last.out[i].kind = "post" /\ last.out[i].arg = "true"
                /\ \A i \in (j + 1)..Len(last.out) :
                      last.out[i].kind \notin {"notify", "post"}
        /\ (\E e \in {"status", "unsupported", "login", "action"} :
               Printed(last.out, "Restart Error: " \o e)) => NotifiedOnce("true")

\* a start request that the hypervisor refused, after the announcement went out
C2_Witness ==
    /\ Processed /\ Delivering
    /\ \E i \in 1..Len(Actions) : Actions[i].arg = "start" /\ Actions[i].resp = "fail"
    /\ Printed(last.out, "Restart Error: action")
    /\ NotifiedOnce("true")

\* C3: with automatic restart disabled, every NotReady node is Skip-Disabled
\* with one triggered=false notification, whatever its NotReady duration and
\* whether or not it is mapped, and nothing is ever sent to the hypervisor:
\* the client holds no ticket at any point of the pass.
C3_DisabledNeverTouchesHypervisor ==
    ~enableRestart =>
        /\ proxmoxClient = NewClient(cfg.Proxmox)
        /\ Processed =>
              /\ Hypervisor(last.out) = <<>>
              /\ Calls = <<>>
              /\ last.node.Status # "Ready" =>
                    Decision = "Skip-Disabled" /\ NotifiedOnce("false")

\* a mapped NotReady node, processed with restart disabled and session
\* credentials
C3_Witness ==
    /\ Processed /\ ~enableRestart /\ Mapped
    /\ last.node.Status = "NotReady"
    /\ cfg.Proxmox.TokenID = ""
    /\ Decision = "Skip-Disabled"

C5_ReadySkips ==
    (Processed /\ last.node.Status = "Ready") =>
        /\ Decision = "Skip-Ready"
        /\ \A i \in 1..Len(last.out) : last.out[i].kind = "print"
        /\ last.since = -1
        /\ proxmoxClient = last.c0

\* a mapped Ready node, processed with restart enabled
C5_Witness ==
    /\ Processed /\ enableRestart /\ Mapped
    /\ last.node.Status = "Ready"
    /\ Decision = "Skip-Ready"

\* the resource the node is mapped to
Target ==
    LET m == FindNodeMapping(cfg, last.node.Name)
    IN  IF m = <<>> THEN <<>> ELSE << m[1].ProxmoxNode, m[1].VMID >>

\* remediate (RestartVM) ran and its own status query, the second of the
\* node's processing, was answered
RemediateQueried == Processed /\ Decision = "Remediate" /\ Len(Queries) = 2

\* what remediate issued: one entry into vmAction for the action, and at most
\* one request for it on the wire, exactly one unless the session could not
\* be established right before it
IssuedOnly(action) ==
    /\ Len(Calls) = 1
    /\ Calls[1].arg = action /\ Calls[1].target = Target
    /\ Len(Actions) <= 1
    /\ \A i \in 1..Len(Actions) :
          Actions[i].arg = action /\ Actions[i].target = Target
    /\ Len(Actions) = 0 <=> Printed(last.out, "Restart Error: login")

\* C6: remediate maps the state it queried to its action totally: stopped
\* issues exactly one start, running exactly one reset, and any other state
\* returns the unsupported-state error and issues nothing.
C6_StateToAction ==
    /\ RemediateQueried =>
          LET status == Queries[2].resp IN
          /\ status = "stopped" => IssuedOnly("start")
          /\ status = "running" => IssuedOnly("reset")
          /\ status \notin {"stopped", "running"} =>
                /\ Calls = <<>> /\ Actions = <<>>
                /\ status # "fail" => Printed(last.out, "Restart Error: unsupported")
    /\ (Processed /\ ~RemediateQueried) => (Calls = <<>> /\ Actions = <<>>)

\* remediate found the resource paused
C6_Witness ==
    /\ RemediateQueried
    /\ Queries[2].resp = "paused"
    /\ Printed(last.out, "Restart Error: unsupported")
    /\ Actions = <<>>

\* C7: remediate on a running resource performs a single reset; the driver
\* never asks for a stop (nor for a start of a resource it saw running), so
\* it causes no Stopped state between its query and its return.
C7_RunningIsResetOnce ==
    Processed =>
        /\ \A i \in 1..Len(last.out) :
              last.out[i].kind \in {"vmAction", "action"} =>
                 last.out[i].arg \in {"start", "reset"}
        /\ (RemediateQueried /\ Queries[2].resp = "running") =>
              /\ Len(Calls) = 1 /\ Calls[1].arg = "reset"
              /\ Len(Actions) <= 1
              /\ \A i \in 1..Len(Actions) : Actions[i].arg = "reset"

\* a reset that the hypervisor accepted
C7_Witness ==
    /\ RemediateQueried /\ Queries[2].resp = "running"
    /\ Len(Actions) = 1 /\ Actions[1].arg = "reset" /\ Actions[1].resp = "ok"
    /\ Printed(last.out, "Restart: Requested successfully")

\* C8: whatever failed for a node (no mapping, a failed query, action or
\* delivery, an unsupported state), the loop goes on to the next node, which
\* is processed to the end like any other, and main returns only after the
\* last node.
C8_ContinuePastFailure ==
    /\ [](pc \notin {"exited"})
    /\ [](pc = "done" => idx = Len(nodes) + 1)
    /\ []((pc = "loop" /\ idx > Len(nodes)) => ENABLED Return)
    /\ [][(pc = "loop" /\ idx <= Len(nodes)) =>
             /\ pc' = "loop"
             /\ idx' = idx + 1
             /\ last'.node = nodes[idx]
             /\ DecisionOf(last'.out) # "none"
             /\ last'.out[Len(last'.out)] =
                  Printf("IP, Kubelet Version, OS/Arch, Allocatable Resources")]_vars

\* the pass is over; a node before the last one had a failure, the last one
\* had one too
C8_Witness ==
    /\ pc = "done" /\ idx > 2
    /\ hadFailure
    /\ Failure(last.out)

Request(e) == [kind |-> e.kind, target |-> e.target, arg |-> e.arg, auth |-> e.auth]

\* where two event sequences part: the first position at which they differ,
\* one more than their length if they are equal
FirstDiff(x, y) ==
    CHOOSE i \in 1..(Len(x) + 1) :
        /\ \A j \in 1..(i - 1) : j <= Len(y) /\ x[j] = y[j]
        /\ i > Len(x) \/ i > Len(y) \/ x[i] # y[i]

\* the hypervisor answered two runs alike: they do not part at a request
\* that both sent and that was answered differently
SameAnswers(x, y) ==
    LET i == FirstDiff(x, y)
    IN  ~(i <= Len(x) /\ i <= Len(y) /\ Request(x[i]) = Request(y[i]))

\* the webhook client with notifications disabled, and with no endpoint
Quiet == { NewWebhookClient(discordClient.WebhookURL, FALSE),
           NewWebhookClient("", TRUE) }

\* the clock reading of the node's processing, if it read the clock
ClockRead == IF last.since < 0 THEN 0 ELSE last.since + last.node.LastTransition

\* C9: processing the same node from the same client state with the same
\* clock reading and the same hypervisor answers, but with notifications
\* disabled or without endpoint, gives the same decision, the same requests
\* to the hypervisor and the same client, whatever the webhook answered.
C9_NotificationNoninterference ==
    Processed =>
        \A dq \in Quiet :
            LET runs == displayNodeInfo(last.node, cfg, last.c0, dq,
                                        enableRestart, ClockRead)
            IN  /\ \A b \in runs :
                      SameAnswers(Hypervisor(last.out), Hypervisor(b.out)) =>
                         /\ Hypervisor(b.out) = Hypervisor(last.out)
                         /\ DecisionOf(b.out) = Decision
                         /\ OfKind(b.out, {"vmAction"}) = Calls
                         /\ b.c = proxmoxClient
                /\ \E b \in runs : Hypervisor(b.out) = Hypervisor(last.out)

\* a remediation whose announcement the webhook refused and whose action was
\* issued all the same
C9_Witness ==
    /\ Processed /\ Delivering /\ Decision = "Remediate"
    /\ Len(Posts) = 1 /\ Posts[1].resp = "fail"
    /\ Len(Actions) = 1

\* the engine's own status query, the first of the node's processing, failed:
\* the session could not be established, or the request was not answered
EngineQueryFailed ==
    /\ Processed /\ enableRestart /\ Mapped
    /\ last.node.Status = "NotReady"
    /\ last.since > GraceThreshold
    /\ \/ Len(Queries) = 0
       \/ Queries[1].resp = "fail"

\* C10: when the engine's status query fails for a NotReady, past-grace,
\* mapped node with restart enabled, the node is Skip-QueryError: one
\* notification, with triggered=false, and no start or reset.
C10_QueryErrorSkips ==
    EngineQueryFailed =>
        /\ Decision = "Skip-QueryError"
        /\ NotifiedOnce("false")
        /\ Calls = <<>> /\ Actions = <<>>
        /\ Len(Queries) <= 1

\* the status request itself failed and the notification was delivered
C10_Witness ==
    /\ EngineQueryFailed
    /\ Len(Queries) = 1 /\ Queries[1].resp = "fail"
    /\ Len(Posts) = 1 /\ Posts[1].resp = "ok" /\ Posts[1].arg = "false"


\* no entry of the configuration names the node
Unmapped ==
    \A i \in 1..Len(cfg.Nodes) : cfg.Nodes[i].KubernetesNodeName # last.node.Name

\* C11: a NotReady, past-grace node without mapping, with restart enabled,
\* is Skip-Unmapped and that is no failure of the pass: one notification with
\* triggered=false and an empty resource info, no login, query or action, the
\* client untouched, and the node's processing runs to its end.
C11_UnmappedSkips ==
    (/\ Processed /\ enableRestart /\ Unmapped
     /\ last.node.Status = "NotReady"
     /\ last.since > GraceThreshold) =>
        /\ Decision = "Skip-Unmapped"
        /\ NotifiedOnce("false")
        /\ \A i \in 1..Len(Posts) : Posts[i].target = <<>>
        /\ Hypervisor(last.out) = <<>>
        /\ Calls = <<>>
        /\ proxmoxClient = last.c0
        /\ pc \in {"loop", "done"}
        /\ last.out[Len(last.out)] =
             Printf("IP, Kubelet Version, OS/Arch, Allocatable Resources")

\* an unmapped node whose notification was delivered, in a configuration that
\* maps other nodes
C11_Witness ==
    /\ Processed /\ enableRestart /\ Unmapped /\ cfg.Nodes # <<>>
    /\ last.since > GraceThreshold
    /\ Decision = "Skip-Unmapped"
    /\ Len(Posts) = 1 /\ Posts[1].resp = "ok" /\ Posts[1].target = <<>>


\* both halves of the token pair are configured
TokenConfigured == cfg.Proxmox.TokenID # "" /\ cfg.Proxmox.TokenSecret # ""

\* C12: with a token pair configured (a username and a password are
\* configured as well) no login request is ever sent, the client never holds a
\* ticket, and every query and action carries the token and neither cookie
\* nor anti-forgery header; requests carry the session cookie, obtained by a
\* login, only when the token pair is not fully configured.
C12_TokenPrecedence ==
    /\ TokenConfigured =>
          /\ cfg.Proxmox.Username # "" /\ cfg.Proxmox.Password # ""
          /\ proxmoxClient.ticket = "" /\ proxmoxClient.csrfToken = ""
          /\ Logins = <<>>
          /\ \A i \in 1..Len(last.out) :
                last.out[i].kind \in {"status", "action"} =>
                   last.out[i].auth = << "Authorization", cfg.Proxmox.TokenID,
                                         cfg.Proxmox.TokenSecret >>
    /\ ~TokenConfigured =>
          \A i \in 1..Len(last.out) :
             last.out[i].kind \in {"status", "action"} =>
                /\ last.out[i].auth[1] = "Cookie"
                /\ \E j \in 1..(i - 1) :
                      /\ last.out[j].kind = "login"
                      /\ last.out[j].resp = last.out[i].auth[2]

\* a start issued under the token, with session credentials configured too
C12_Witness ==
    /\ Processed /\ TokenConfigured /\ cfg.Proxmox.Username # ""
    /\ Len(Queries) = 2 /\ Len(Actions) = 1
    /\ Actions[1].auth = << "Authorization", "id", "secret" >>


\* C13: on a webhook client that is disabled or has no URL, sending is a
\* no-op that succeeds: for the node just processed and for either value of
\* the triggered flag its only result is no request and no error, and the
\* pass neither posted anything nor printed a delivery error for the node.
C13_DisabledSendIsNoOp ==
    (Processed /\ ~Delivering) =>
        /\ \A flag \in BOOLEAN :
              SendNodeNotReadyNotification(discordClient, last.node.Name,
                                           last.node.Status, Target, flag)
                = { << <<>>, "" >> }
        /\ Posts = <<>>
        /\ ~Printed(last.out, "Discord error")
        /\ (discordClient.Enabled /\ Len(Notifies) = 1) =>
              Printed(last.out, "Discord sent")

\* an enabled client without URL was asked to announce a remediation
C13_Witness ==
    /\ Processed /\ discordClient.Enabled /\ discordClient.WebhookURL = ""
    /\ Len(Notifies) = 1 /\ Notifies[1].arg = "true"
    /\ Printed(last.out, "Discord sent")
    /\ Posts = <<>>


\* the positions of the status queries in the node's events
QueryAt == { i \in 1..Len(last.out) : last.out[i].kind = "status" }

\* C14: the action of a remediation follows the status that remediate itself
\* queried, after the announcement, and not the one the engine queried before:
\* an action comes after a second answered query of the same resource and is
\* start if that answer was stopped and reset if it was running, whatever the
\* first answer was; when remediate's query fails nothing is issued.
C14_ActsOnFreshStatus ==
    (Processed /\ Decision = "Remediate") =>
        /\ Len(Queries) >= 1 /\ Queries[1].resp # "fail"
        /\ \A j \in 1..Len(last.out) :
              last.out[j].kind \in {"vmAction", "action"} =>
                 /\ Cardinality({ i \in QueryAt : i < j }) = 2
                 /\ Queries[2].target = Queries[1].target
                 /\ \E n \in 1..(j - 1) :
                       /\ last.out[n].kind = "notify"
                       /\ \E i \in QueryAt : n < i /\ i < j
                 /\ Queries[2].resp = "stopped" => last.out[j].arg = "start"
                 /\ Queries[2].resp = "running" => last.out[j].arg = "reset"
                 /\ Queries[2].resp \in {"stopped", "running"}
        /\ (Len(Queries) < 2 \/ Queries[2].resp = "fail") =>
              /\ Calls = <<>> /\ Actions = <<>>
              /\ Printed(last.out, "Restart Error: status")

\* the resource was running when the engine looked and stopped when
\* remediate looked: it is started
C14_Witness ==
    /\ Processed /\ Len(Queries) = 2
    /\ Queries[1].resp = "running" /\ Queries[2].resp = "stopped"
    /\ Len(Actions) = 1 /\ Actions[1].arg = "start"


\* the positions of the requests that need the session
RequestAt == { i \in 1..Len(last.out) : last.out[i].kind \in {"status", "action"} }

\* the positions of the logins that succeeded
LoggedInAt ==
    { i \in 1..Len(last.out) : last.out[i].kind = "login" /\ last.out[i].resp # "fail" }

\* C15 as claimed: in session mode the session is established once and then
\* kept: once a login has succeeded no later call logs in again, and a ticket
\* the client holds before a node is processed is the one it holds afterwards.
C15_SessionEstablishedOnce ==
    (Processed /\ ~TokenConfigured) =>
        /\ \A i \in LoggedInAt : \A j \in (i + 1)..Len(last.out) :
              last.out[j].kind # "login"
        /\ last.c0.ticket # "" =>
              /\ Logins = <<>>
              /\ proxmoxClient.ticket = last.c0.ticket
              /\ proxmoxClient.csrfToken = last.c0.csrfToken

\* C15 (amended): in session mode no session is reused: every query and every
\* action is sent right after a login of its own that succeeded and carries
\* that login's ticket; every login that succeeds is followed by its request;
\* the client ends up holding the ticket and anti-forgery token of the last
\* request, and is unchanged if no login succeeded.
C15_SessionPerCall ==
    (Processed /\ ~TokenConfigured) =>
        /\ \A j \in RequestAt :
              /\ j - 1 \in LoggedInAt
              /\ last.out[j].auth[1] = "Cookie"
              /\ last.out[j].auth[2] = last.out[j - 1].resp
        /\ \A i \in LoggedInAt : i + 1 \in RequestAt
        /\ Cardinality(LoggedInAt) = Cardinality(RequestAt)
        /\ IF RequestAt = {} THEN proxmoxClient = last.c0
           ELSE LET j == CHOOSE k \in RequestAt : \A m \in RequestAt : m <= k
                IN  /\ proxmoxClient.ticket = last.out[j].auth[2]
                    /\ proxmoxClient.csrfToken = last.out[j].auth[3]

\* a client that held a ticket logged in three more times for one node and
\* holds another ticket afterwards
C15_Witness ==
    /\ Processed /\ ~TokenConfigured
    /\ last.c0.ticket # ""
    /\ Len(Logins) = 3 /\ Len(Actions) = 1
    /\ proxmoxClient.ticket # last.c0.ticket


\* the remote calls of the node's processing that failed
FailedAt == { i \in 1..Len(last.out) : last.out[i].resp = "fail" }

\* the lines that report a failed remote call
ReportedAt ==
    { i \in 1..Len(last.out) :
        /\ last.out[i].kind = "print"
        /\ last.out[i].arg \in {"Status Error", "Restart Error: status",
                                "Restart Error: login", "Restart Error: action",
                                "Discord error"} }

\* C16: nothing is retried: for one node at most one power action is issued
\* and at most one webhook request is sent; after a remote call failed, no
\* call of its kind follows for the node, and after a hypervisor call failed
\* no hypervisor call at all; each failure is reported by one line and the
\* pass goes on.
C16_NoRetries ==
    Processed =>
        /\ Len(Calls) <= 1 /\ Len(Actions) <= 1 /\ Len(Posts) <= 1
        /\ \A i \in FailedAt : \A j \in (i + 1)..Len(last.out) :
              /\ last.out[j].kind # last.out[i].kind
              /\ last.out[i].kind \in {"login", "status", "action"} =>
                    last.out[j].kind \notin {"login", "status", "action", "vmAction"}
        /\ Cardinality(ReportedAt) = Cardinality(FailedAt)
        /\ \A i \in FailedAt : \E j \in ReportedAt : i < j
        /\ pc \in {"loop", "done"}

\* the login before the action failed: it is reported and not repeated, and
\* no action is sent
C16_Witness ==
    /\ Processed
    /\ Len(Logins) = 3 /\ Logins[3].resp = "fail"
    /\ Len(Calls) = 1 /\ Actions = <<>>
    /\ Printed(last.out, "Restart Error: login")


\* the resource of the first entry of the configuration that names the node
FirstMappedResource ==
    LET at == { i \in 1..Len(cfg.Nodes) :
                  cfg.Nodes[i].KubernetesNodeName = last.node.Name }
        first == CHOOSE i \in at : \A k \in at : i <= k
    IN  << cfg.Nodes[first].ProxmoxNode, cfg.Nodes[first].VMID >>

ReportedStarted == Printed(last.out, "Restart: VM was stopped, started successfully")
ReportedRequested == Printed(last.out, "Restart: Requested successfully")

\* C18: the success report agrees with the action issued: "VM was stopped,
\* started" only after a start, a restart request only after a reset, also
\* when the power state differs between the engine's and remediate's query.
C18_ReportMatchesAction ==
    Processed =>
        /\ ReportedStarted =>
              Len(Actions) = 1 /\ Actions[1].arg = "start"
        /\ ReportedRequested =>
              Len(Actions) = 1 /\ Actions[1].arg = "reset"

\* what the code guarantees: the report follows the engine's own query
C18_ReportFollowsEngineQuery ==
    Processed /\ (ReportedStarted \/ ReportedRequested) =>
        /\ Len(Queries) = 2 /\ Len(Actions) = 1
        /\ ReportedStarted <=> Queries[1].resp = "stopped"
        /\ Actions[1].arg = "start" <=> Queries[2].resp = "stopped"

\* the resource was stopped at the engine's query and running at remediate's
C18_StateChanged ==
    /\ Processed /\ ReportedStarted
    /\ Len(Queries) = 2
    /\ Queries[1].resp = "stopped" /\ Queries[2].resp = "running"
    /\ Len(Actions) = 1 /\ Actions[1].arg = "reset"

====
